---- MODULE Spec2Model ----
(***************************************************************************)
(* Model of src/main.ts: the rugplay_api command-line client.              *)
(*                                                                         *)
(* A JavaScript string is a sequence of atoms (short pieces of text that   *)
(* the program never looks inside): "abc def" is <<"abc", " ", "def">>.    *)
(* String concatenation is \o, so split, the re-joining loops, the JSON    *)
(* text of the config file and the request URLs are computed as the code   *)
(* computes them.                                                          *)
(***************************************************************************)
EXTENDS Integers, Sequences, FiniteSets, TLC

VARIABLES
    pc,       \* where the top-level program is: boot, listing, awaiting, exec, ended, crashed
    config,   \* the module-level `config` object (line 39)
    fs,       \* the home directory and the config file in it
    h,        \* the running command handler: its name, arguments, position and locals
    reqs,     \* HTTP requests issued (fetch called) since the last input line was read
    resps,    \* responses delivered to the awaiting code, in order, for reqs
    out,      \* console messages printed since the last input line was read
    lastSet   \* history: the input line of the last completed set-cookie

vars == <<pc, config, fs, h, reqs, resps, out, lastSet>>

----------------------------------------------------------------------------
(* Bounds *)

\* The largest number of coins a market response lists.
MaxCoins == 5

----------------------------------------------------------------------------
(* JavaScript values *)

SP == " "
QUOTE == "\""
BSLASH == "\\"

Str(s) == [t |-> "str", s |-> s]
Undefined == [t |-> "undef", s |-> <<>>]

\* numbers: a finite value, NaN or Infinity
Num(n) == [k |-> "num", v |-> n]
NaN == [k |-> "nan", v |-> 0]
Infinity == [k |-> "inf", v |-> 0]

Object(c) == [kind |-> "object", cookie |-> c]
Null == [kind |-> "null", cookie |-> Undefined]

\* the sentinel of lines 39 and 51
UNKNOWN == <<"unknown">>

\* let config = {cookie:"unknown"}
DefaultConfig == Object(Str(UNKNOWN))

----------------------------------------------------------------------------
(* String.prototype.split(" ") *)

RECURSIVE split(_)
split(s) ==
    IF \A i \in 1..Len(s) : s[i] # SP
    THEN <<s>>
    ELSE LET i == CHOOSE k \in 1..Len(s) :
                      s[k] = SP /\ \A j \in 1..(k-1) : s[j] # SP
         IN  <<SubSeq(s, 1, i-1)>> \o split(SubSeq(s, i+1, Len(s)))

\* the loop `while (args.length >= 1) { x += ` ${args.shift()}`; }`
RECURSIVE JoinRest(_, _)
JoinRest(acc, args) ==
    IF Len(args) >= 1
    THEN JoinRest(acc \o <<SP>> \o Head(args), Tail(args))
    ELSE acc

----------------------------------------------------------------------------
(* parseFloat on strings of decimal digits *)

DigitVal(a) ==
    CASE a = "0" -> 0 [] a = "1" -> 1 [] a = "2" -> 2 [] a = "3" -> 3
      [] a = "4" -> 4 [] a = "5" -> 5 [] a = "6" -> 6 [] a = "7" -> 7
      [] a = "8" -> 8 [] a = "9" -> 9 [] OTHER -> -1

RECURSIVE DigitsValue(_, _)
DigitsValue(s, acc) ==
    IF s = <<>> \/ DigitVal(Head(s)) < 0
    THEN acc
    ELSE DigitsValue(Tail(s), 10 * acc + DigitVal(Head(s)))

\* parseFloat(x): the longest numeric prefix, NaN when there is none
parseFloat(tok) ==
    IF tok.t = "undef" \/ tok.s = <<>> \/ DigitVal(Head(tok.s)) < 0
    THEN NaN
    ELSE Num(DigitsValue(tok.s, 0))

\* Math.floor(budget/amount) for non-negative operands
FloorDiv(budget, amount) ==
    IF budget.k # "num" \/ amount.k # "num" THEN NaN
    ELSE IF amount.v = 0
         THEN (IF budget.v = 0 THEN NaN ELSE Infinity)
         ELSE Num(budget.v \div amount.v)

\* i < limit
LessThan(i, limit) ==
    CASE limit.k = "num" -> i < limit.v
      [] limit.k = "inf" -> TRUE
      [] OTHER -> FALSE

\* args.shift(): undefined on an empty array
Shift(args) == IF args = <<>> THEN Undefined ELSE Str(Head(args))
Rest(args) == IF args = <<>> THEN <<>> ELSE Tail(args)

----------------------------------------------------------------------------
(* JSON.stringify and JSON.parse for the config file *)

RECURSIVE Escape(_)
Escape(s) ==
    IF s = <<>> THEN <<>>
    ELSE IF Head(s) = QUOTE \/ Head(s) = BSLASH
         THEN <<BSLASH, Head(s)>> \o Escape(Tail(s))
         ELSE <<Head(s)>> \o Escape(Tail(s))

\* JSON.stringify(config): a property whose value is undefined is left out
JSON_stringify(cfg) ==
    IF cfg.kind = "null" THEN <<"null">>
    ELSE IF cfg.cookie.t = "undef" THEN <<"{", "}">>
    ELSE <<"{", "\"cookie\"", ":", QUOTE>> \o Escape(cfg.cookie.s) \o <<QUOTE, "}">>

\* the body of a JSON string literal: [ok |-> well formed, s |-> the string]
RECURSIVE Unescape(_)
Unescape(s) ==
    IF s = <<>> THEN [ok |-> TRUE, s |-> <<>>]
    ELSE IF Head(s) = QUOTE THEN [ok |-> FALSE, s |-> <<>>]
    ELSE IF Head(s) = BSLASH
         THEN IF Len(s) >= 2 /\ (s[2] = QUOTE \/ s[2] = BSLASH)
              THEN LET r == Unescape(SubSeq(s, 3, Len(s)))
                   IN  [ok |-> r.ok, s |-> <<s[2]>> \o r.s]
              ELSE [ok |-> FALSE, s |-> <<>>]
         ELSE LET r == Unescape(Tail(s))
              IN  [ok |-> r.ok, s |-> <<Head(s)>> \o r.s]

\* JSON.parse(text) for the texts a config file holds here: null, {} and
\* {"cookie":"..."}; every other text is a SyntaxError (threw).
JSON_parse(text) ==
    IF text = <<"null">> THEN [threw |-> FALSE, value |-> Null]
    ELSE IF text = <<"{", "}">> THEN [threw |-> FALSE, value |-> Object(Undefined)]
    ELSE IF /\ Len(text) >= 6
            /\ SubSeq(text, 1, 4) = <<"{", "\"cookie\"", ":", QUOTE>>
            /\ SubSeq(text, Len(text) - 1, Len(text)) = <<QUOTE, "}">>
            /\ Unescape(SubSeq(text, 5, Len(text) - 2)).ok
         THEN [threw |-> FALSE,
               value |-> Object(Str(Unescape(SubSeq(text, 5, Len(text) - 2)).s))]
         ELSE [threw |-> TRUE, value |-> Null]

----------------------------------------------------------------------------
(* Config store *)

NoFile == [exists |-> FALSE, text |-> <<>>]
File(text) == [exists |-> TRUE, text |-> text]

\* readConfig(): Deno.readTextFileSync throws on a missing file, JSON.parse
\* on a text that is not JSON.
readConfig(f) ==
    IF ~f.file.exists THEN [threw |-> TRUE, value |-> Null]
    ELSE JSON_parse(f.file.text)

\* a writeConfig that makes the directory and leaves the file alone
writeConfigNothing(cfg, f, mkdirOk) ==
    LET dir == f.dir \/ mkdirOk
    IN  IF dir
        THEN [threw |-> FALSE, fs |-> [dir |-> TRUE, file |-> f.file]]
        ELSE [threw |-> TRUE, fs |-> f]

\* writeConfig(config): statSync(dir); when that throws, mkdirSync, whose
\* failure is ignored (mkdirOk is its outcome); then writeTextFileSync, which
\* throws when the directory still does not exist.
writeConfig(cfg, f, mkdirOk) ==
    LET dir == f.dir \/ mkdirOk
    IN  IF dir
        THEN [threw |-> FALSE,
              fs |-> [dir |-> TRUE, file |-> File(JSON_stringify(cfg))]]
        ELSE [threw |-> TRUE, fs |-> f]

----------------------------------------------------------------------------
(* Console messages *)

Msg(k) == [k |-> k, tok |-> <<>>]
MsgTok(k, tok) == [k |-> k, tok |-> tok]

Count(seq, k) == Cardinality({i \in 1..Len(seq) : seq[i].k = k})

----------------------------------------------------------------------------
(* The command registry (lines 116-673): names in insertion order *)

CommandNames ==
    <<"commands", "set-cookie", "coinflip", "slots", "summary", "redeem",
      "new-coin", "settings", "me", "daily-reward", "notifications", "invest",
      "view-user", "market", "buy-coin", "sell-coin", "portfolio">>

\* a registry that also holds a command named foobar
commands_has_foobar(tok) ==
    Len(tok) = 1 /\ (tok[1] = "foobar" \/ \E i \in 1..Len(CommandNames) : CommandNames[i] = tok[1])

\* commands.has(name); a token is a string, a command name a one-atom string
commands_has(tok) ==
    Len(tok) = 1 /\ \E i \in 1..Len(CommandNames) : CommandNames[i] = tok[1]

Idle == [cmd |-> "", line |-> <<>>, args |-> <<>>, step |-> "idle",
         amount |-> NaN, limit |-> NaN, i |-> 0, ncoins |-> 0,
         a |-> "none", b |-> "none", syms |-> <<>>]


Handler(name, line, args) ==
    [Idle EXCEPT !.cmd = name, !.line = line, !.args = args, !.step = "start"]

----------------------------------------------------------------------------
(* Requests *)

BASE == <<"https://rugplay.com/api/">>
DATA_URL == <<"https://rugplay.com/__data.json?x-sveltekit-trailing-slash=1&x-sveltekit-invalidated=10">>

FieldS(k, s) == [k |-> k, s |-> s, n |-> NaN]
FieldN(k, n) == [k |-> k, s |-> <<>>, n |-> n]

NoBody == [form |-> "none", fields |-> <<>>]
Json(fields) == [form |-> "json", fields |-> fields]
Form(fields) == [form |-> "formdata", fields |-> fields]

\* a request whose headers were built from the config of line 39, before the load
Req_initial_cookie(url, method, body) ==
    [url |-> url, method |-> method, cookie |-> Str(UNKNOWN), body |-> body]

Req(url, method, body) ==
    [url |-> url, method |-> method, cookie |-> config.cookie, body |-> body]

\* an api_req without the cookie guard
api_req_unguarded(api, method, body) ==
    IF config.kind = "null"
    THEN [ret |-> "threw", warn |-> FALSE, sent |-> <<>>]
    ELSE [ret |-> "pending", warn |-> FALSE, sent |-> <<Req(BASE \o api, method, body)>>]

\* api_req(api, method, body): what the call does before it first suspends.
\* ret: "undefined" (returned at line 53), "pending" (fetch called, awaiting
\* the response) or "threw" (reading config.cookie of a null config).
api_req(api, method, body) ==
    IF config.kind = "null"
    THEN [ret |-> "threw", warn |-> FALSE, sent |-> <<>>]
    ELSE IF config.cookie.t = "str" /\ config.cookie.s = UNKNOWN
    THEN [ret |-> "undefined", warn |-> TRUE, sent |-> <<>>]
    ELSE [ret |-> "pending", warn |-> FALSE, sent |-> <<Req(BASE \o api, method, body)>>]

\* me(): the fetch of lines 94-106; no cookie guard
me_fetch ==
    IF config.kind = "null"
    THEN [ret |-> "threw", warn |-> FALSE, sent |-> <<>>]
    ELSE [ret |-> "pending", warn |-> FALSE, sent |-> <<Req(DATA_URL, "GET", NoBody)>>]

Warn(r) == IF r.warn THEN <<Msg("unauth")>> ELSE <<>>

\* what fetch resolves or rejects with
Outcomes == {"ok", "nonok", "reject"}

InFlight == Len(reqs) - Len(resps)

----------------------------------------------------------------------------
(* Handler steps shared by the call sites *)

\* The handler's promise rejects: the top-level await at line 676 or 691
\* rethrows and the process ends.
Throw ==
    /\ pc' = "crashed"
    /\ h' = [h EXCEPT !.step = "threw"]

Return(msgs) ==
    /\ h' = [h EXCEPT !.step = "returned"]
    /\ out' = out \o msgs
    /\ pc' = pc

\* an early return that makes no request
ReturnNow(msgs) ==
    /\ Return(msgs)
    /\ UNCHANGED <<config, fs, reqs, resps, lastSet>>

\* const a = await api_req(...); if (a==undefined) { return; }
\* up to the suspension on fetch; hh is the handler with its locals set
CallFrom(hh, r, msgs, waitStep) ==
    /\ reqs' = reqs \o r.sent
    /\ out' = out \o msgs \o Warn(r)
    /\ CASE r.ret = "threw" ->
                /\ pc' = "crashed"
                /\ h' = [hh EXCEPT !.step = "threw"]
         [] r.ret = "undefined" ->
                /\ h' = [hh EXCEPT !.a = "undefined", !.step = "returned"]
                /\ pc' = pc
         [] r.ret = "pending" ->
                /\ h' = [hh EXCEPT !.step = waitStep]
                /\ pc' = pc
    /\ UNCHANGED <<config, fs, resps, lastSet>>

CallOnce(r) == CallFrom(h, r, <<>>, "wait")

\* the response arrives: if (!a.ok) { API ERROR; return; } ... success output
Respond(success) ==
    \E r \in Outcomes :
        /\ resps' = Append(resps, r)
        /\ CASE r = "reject" -> Throw /\ out' = out
             [] r = "nonok" ->
                    /\ h' = [h EXCEPT !.a = r, !.step = "returned"]
                    /\ out' = Append(out, Msg("api_error"))
                    /\ pc' = pc
             [] r = "ok" ->
                    /\ h' = [h EXCEPT !.a = r, !.step = "returned"]
                    /\ out' = out \o success
                    /\ pc' = pc
        /\ UNCHANGED <<config, fs, reqs, lastSet>>

At(name, step) == h.cmd = name /\ h.step = step


\* the process is running
Alive == pc \in {"exec", "awaiting"}

\* await mk_file(path) succeeds or throws, as the file system decides
MkFile == BOOLEAN

\* 0.01, the default amount of coinflip and slots
Default001 == [k |-> "cent", v |-> 1]

NumText(n) ==
    CASE n.k = "num" -> <<ToString(n.v)>>
      [] n.k = "inf" -> <<"Infinity">>
      [] n.k = "nan" -> <<"NaN">>
      [] OTHER -> <<"0.01">>

----------------------------------------------------------------------------
(* commands (lines 117-132) and set-cookie (lines 133-144) *)

commands_list ==
    /\ Alive /\ At("commands", "start")
    /\ ReturnNow(<<Msg("command_list")>>)

\* set-cookie that stores only its first token
set_cookie_value_first(args) == Shift(args)

\* let cookie = args.shift(); while (args.length >= 1) cookie += ` ${args.shift()}`
set_cookie_value(args) ==
    IF args = <<>> THEN Undefined ELSE Str(JoinRest(Head(args), Tail(args)))

set_cookie ==
    /\ Alive /\ At("set-cookie", "start")
    /\ UNCHANGED <<reqs, resps>>
    /\ IF config.kind = "null"
       THEN \* config.cookie = ... on null: TypeError
            /\ Throw
            /\ UNCHANGED <<config, fs, out, lastSet>>
       ELSE \E mkdirOk \in BOOLEAN :
              LET cfg == Object(set_cookie_value(h.args))
                  w == writeConfig(cfg, fs, mkdirOk)
              IN  /\ config' = cfg
                  /\ out' = Append(out, Msg("success"))
                  /\ fs' = w.fs
                  /\ IF w.threw
                     THEN Throw /\ lastSet' = lastSet
                     ELSE /\ h' = [h EXCEPT !.step = "returned"]
                          /\ pc' = pc
                          /\ lastSet' = [set |-> TRUE, line |-> h.line,
                                         restarted |-> FALSE]

----------------------------------------------------------------------------
(* Single-request commands *)

coinflip ==
    /\ Alive /\ At("coinflip", "start")
    /\ LET side == IF Shift(h.args) = Str(<<"1">>) THEN <<"tails">> ELSE <<"heads">>
           tok == Shift(Rest(h.args))
           amount == IF tok.t = "undef" THEN Default001 ELSE parseFloat(tok)
       IN  CallOnce(api_req(<<"gambling/coinflip">>, "POST",
                            Json(<<FieldS("side", side), FieldN("amount", amount)>>)))

coinflip_resp ==
    /\ Alive /\ At("coinflip", "wait")
    /\ Respond(<<Msg("success")>>)

slots ==
    /\ Alive /\ At("slots", "start")
    /\ LET tok == Shift(h.args)
           amount == IF tok.t = "undef" THEN Default001 ELSE parseFloat(tok)
       IN  CallOnce(api_req(<<"gambling/slots">>, "POST",
                            Json(<<FieldN("amount", amount)>>)))

\* slot_record (lines 71-78): the glyph of a symbol identifier, undefined for
\* an identifier that is not a key
slot_record(id) ==
    CASE id = "wattesigma" -> Str(<<"white-square">>)
      [] id = "webx" -> Str(<<"black-square">>)
      [] id = "twoblade" -> Str(<<"red-square">>)
      [] id = "lyntr" -> Str(<<"purple-square">>)
      [] id = "bussin" -> Str(<<"orange-square">>)
      [] id = "subterfuge" -> Str(<<"green-square">>)
      [] OTHER -> Undefined

\* what console.log prints for a string or for undefined
Render(v) == IF v.t = "undef" THEN "undefined" ELSE v.s[1]

\* json.symbols of the slots responses: the six identifiers and one other
SlotResponses ==
    { <<"wattesigma", "webx", "twoblade">>,
      <<"lyntr", "bussin", "subterfuge">>,
      <<"webx", "webx", "webx">>,
      <<"webx", "cherry", "webx">>,
      <<"cherry", "lyntr", "cherry">> }

slots_resp ==
    /\ Alive /\ At("slots", "wait")
    /\ \E r \in Outcomes, syms \in SlotResponses :
         /\ resps' = Append(resps, r)
         /\ CASE r = "reject" -> Throw /\ out' = out
              [] r = "nonok" ->
                     /\ h' = [h EXCEPT !.a = r, !.step = "returned"]
                     /\ out' = Append(out, Msg("api_error"))
                     /\ pc' = pc
              [] r = "ok" ->
                     /\ h' = [h EXCEPT !.a = r, !.syms = syms, !.step = "returned"]
                     /\ out' = out \o
                          <<MsgTok("symbols", [i \in 1..3 |-> Render(slot_record(syms[i]))]),
                            Msg("success")>>
                     /\ pc' = pc
         /\ UNCHANGED <<config, fs, reqs, lastSet>>

summary ==
    /\ Alive /\ At("summary", "start")
    /\ CallOnce(api_req(<<"portfolio/summary">>, "GET", NoBody))

summary_resp ==
    /\ Alive /\ At("summary", "wait")
    /\ Respond(<<Msg("success")>>)

redeem ==
    /\ Alive /\ At("redeem", "start")
    /\ LET code == Shift(h.args)
       IN  CallOnce(api_req(<<"promo/verify">>, "POST",
                Json(IF code.t = "undef" THEN <<>> ELSE <<FieldS("code", code.s)>>)))

redeem_resp ==
    /\ Alive /\ At("redeem", "wait")
    /\ Respond(<<Msg("success")>>)

daily_reward ==
    /\ Alive /\ At("daily-reward", "start")
    /\ CallOnce(api_req(<<"rewards/claim">>, "POST", NoBody))

daily_reward_resp ==
    /\ Alive /\ At("daily-reward", "wait")
    /\ Respond(<<Msg("success")>>)

notifications ==
    /\ Alive /\ At("notifications", "start")
    /\ CallOnce(api_req(<<"notifications">>, "GET", NoBody))

notifications_resp ==
    /\ Alive /\ At("notifications", "wait")
    /\ Respond(<<Msg("success")>>)

view_user ==
    /\ Alive /\ At("view-user", "start")
    /\ IF Len(h.args) # 1
       THEN ReturnNow(<<Msg("arg_error")>>)
       ELSE CallOnce(api_req(<<"user/">> \o h.args[1], "GET", NoBody))

view_user_resp ==
    /\ Alive /\ At("view-user", "wait")
    /\ Respond(<<Msg("success")>>)

\* encodeURIComponent on the atoms used here
RECURSIVE encodeURIComponent(_)
encodeURIComponent(s) ==
    IF s = <<>> THEN <<>>
    ELSE (CASE Head(s) = SP -> <<"%20">>
            [] Head(s) = QUOTE -> <<"%22">>
            [] Head(s) = BSLASH -> <<"%5C">>
            [] OTHER -> <<Head(s)>>) \o encodeURIComponent(Tail(s))

market_url(item, page, limit) ==
    <<"market?search=">> \o item
      \o <<"&sortBy=marketCap", "&sortOrder=desc", "&priceFilter=all&changeFilter=all", "&page=">>
      \o page \o <<"&limit=">> \o limit

\* market without the defaults of lines 513-514
market_no_default ==
    /\ Alive /\ At("market", "start")
    /\ LET p == Shift(h.args)
           page == IF p.t = "undef" THEN <<"undefined">> ELSE p.s
           first == Shift(Rest(h.args))
           item == IF first.t = "undef" THEN <<"undefined">>
                   ELSE JoinRest(first.s, Rest(Rest(h.args)))
       IN  CallOnce(api_req(market_url(encodeURIComponent(item), page, <<"6">>),
                            "GET", NoBody))

market ==
    /\ Alive /\ At("market", "start")
    /\ LET p == Shift(h.args)
           page == IF p.t = "undef" THEN <<"1">> ELSE p.s
           first == Shift(Rest(h.args))
           item == IF first.t = "undef" THEN <<>>
                   ELSE JoinRest(first.s, Rest(Rest(h.args)))
       IN  CallOnce(api_req(market_url(encodeURIComponent(item), page, <<"6">>),
                            "GET", NoBody))

market_resp ==
    /\ Alive /\ At("market", "wait")
    /\ Respond(<<Msg("success")>>)

\* the body shared by buy-coin and sell-coin, which differ in the type only
trade(args, type) ==
    IF Len(args) # 2
    THEN ReturnNow(<<Msg("arg_error")>>)
    ELSE CallOnce(api_req(<<"coin/">> \o args[1] \o <<"/trade">>, "POST",
             Json(<<FieldS("type", <<type>>),
                    FieldN("amount", parseFloat(Str(args[2])))>>)))

buy_coin ==
    /\ Alive /\ At("buy-coin", "start")
    /\ trade(h.args, "BUY")

buy_coin_resp ==
    /\ Alive /\ At("buy-coin", "wait")
    /\ Respond(<<Msg("success")>>)

sell_coin ==
    /\ Alive /\ At("sell-coin", "start")
    /\ trade(h.args, "SELL")

sell_coin_resp ==
    /\ Alive /\ At("sell-coin", "wait")
    /\ Respond(<<Msg("success")>>)


----------------------------------------------------------------------------
(* new-coin (lines 243-277) *)

new_coin ==
    /\ Alive /\ At("new-coin", "start")
    /\ IF Len(h.args) # 3
       THEN ReturnNow(<<Msg("arg_error")>>)
       ELSE \E readable \in MkFile :
              IF ~readable
              THEN ReturnNow(<<Msg("file_error")>>)
              ELSE CallOnce(api_req(<<"coin/create">>, "POST",
                       Form(<<FieldS("name", h.args[1]), FieldS("symbol", h.args[2]),
                              FieldS("icon", h.args[3])>>)))

new_coin_resp ==
    /\ Alive /\ At("new-coin", "wait")
    /\ Respond(<<Msg("success")>>)

----------------------------------------------------------------------------
(* settings (lines 278-334) and me (lines 335-344) *)

NONE == <<"none">>

\* lines 281-286: the argument check, then const u = await me()
settings ==
    /\ Alive /\ At("settings", "start")
    /\ IF Len(h.args) < 4
       THEN ReturnNow(<<Msg("arg_error")>>)
       ELSE CallFrom(h, me_fetch, <<>>, "wait_me")

settings_form(args) ==
    <<FieldS("name", IF args[1] # NONE THEN args[1] ELSE <<"u.nodes[0].data[3]">>)>>
      \o (IF args[2] # NONE THEN <<FieldS("username", args[2])>> ELSE <<>>)
      \o (IF args[3] # NONE THEN <<FieldS("avatar", args[3])>> ELSE <<>>)
      \o (IF args[4] # NONE
          THEN <<FieldS("bio", JoinRest(args[4], SubSeq(args, 5, Len(args))))>>
          ELSE <<>>)

\* lines 107-111 and 287-323: me() returns, the form is built, api_req is called
settings_me ==
    /\ Alive /\ At("settings", "wait_me")
    /\ \E r \in Outcomes, readable \in MkFile :
         /\ resps' = Append(resps, r)
         /\ CASE r = "reject" ->
                    /\ Throw
                    /\ UNCHANGED <<config, fs, reqs, out, lastSet>>
              [] r = "nonok" ->
                    /\ Return(<<Msg("api_error")>>)
                    /\ UNCHANGED <<config, fs, reqs, lastSet>>
              [] r = "ok" ->
                    IF h.args[3] # NONE /\ ~readable
                    THEN /\ Return(<<Msg("file_error")>>)
                         /\ UNCHANGED <<config, fs, reqs, lastSet>>
                    ELSE LET q == api_req(<<"settings">>, "POST", Form(settings_form(h.args)))
                         IN  /\ reqs' = reqs \o q.sent
                             /\ out' = out \o Warn(q)
                             /\ CASE q.ret = "threw" -> Throw
                                  [] q.ret = "undefined" ->
                                        /\ h' = [h EXCEPT !.a = "undefined", !.step = "returned"]
                                        /\ pc' = pc
                                  [] q.ret = "pending" ->
                                        /\ h' = [h EXCEPT !.step = "wait"]
                                        /\ pc' = pc
                             /\ UNCHANGED <<config, fs, lastSet>>

settings_resp ==
    /\ Alive /\ At("settings", "wait")
    /\ Respond(<<Msg("success")>>)

me ==
    /\ Alive /\ At("me", "start")
    /\ CallFrom(h, me_fetch, <<>>, "wait")

me_resp ==
    /\ Alive /\ At("me", "wait")
    /\ Respond(<<Msg("success")>>)

----------------------------------------------------------------------------
(* invest (lines 395-445) *)

\* json.coins[i].symbol of the market response
Symbol(i) == <<"COIN", ToString(i)>>

\* the loop of lines 427-443, from its test i<limit to the next suspension;
\* msgs is what the code before the test has printed
InvestLoop(hh, msgs) ==
    IF ~LessThan(hh.i, hh.limit)
    THEN /\ h' = [hh EXCEPT !.step = "returned"]
         /\ out' = out \o msgs
         /\ UNCHANGED <<reqs, pc>>
    ELSE IF hh.i >= hh.ncoins
    THEN \* json.coins[i] is undefined: TypeError
         /\ h' = [hh EXCEPT !.step = "threw"]
         /\ pc' = "crashed"
         /\ out' = out \o msgs
         /\ UNCHANGED reqs
    ELSE LET r == api_req(<<"coin/">> \o Symbol(hh.i) \o <<"/trade">>, "POST",
                      Json(<<FieldS("type", <<"BUY">>), FieldN("amount", hh.amount)>>))
         IN  /\ reqs' = reqs \o r.sent
             /\ out' = out \o msgs \o Warn(r)
             /\ CASE r.ret = "threw" ->
                        /\ h' = [hh EXCEPT !.step = "threw"]
                        /\ pc' = "crashed"
                  [] r.ret = "undefined" ->
                        /\ h' = [hh EXCEPT !.a = "undefined", !.step = "returned"]
                        /\ pc' = pc
                  [] r.ret = "pending" ->
                        /\ h' = [hh EXCEPT !.step = "wait_buy"]
                        /\ pc' = pc

invest ==
    /\ Alive /\ At("invest", "start")
    /\ IF Len(h.args) < 2
       THEN ReturnNow(<<Msg("arg_error")>>)
       ELSE LET budget == parseFloat(Str(h.args[1]))
                amount == parseFloat(Str(h.args[2]))
                limit == FloorDiv(budget, amount)
                page == IF Len(h.args) = 2 THEN <<"1">> ELSE h.args[3]
            IN  IF budget.k = "nan" \/ amount.k = "nan"
                THEN ReturnNow(<<>>)
                ELSE CallFrom([h EXCEPT !.amount = amount, !.limit = limit],
                              api_req(market_url(<<>>, page, NumText(limit)), "GET", NoBody),
                              <<>>, "wait_market")

invest_market ==
    /\ Alive /\ At("invest", "wait_market")
    /\ \E r \in Outcomes, n \in 0..MaxCoins :
         /\ CASE r = "reject" ->
                    /\ Throw
                    /\ resps' = Append(resps, r)
                    /\ UNCHANGED <<reqs, out>>
              [] r = "nonok" ->
                    /\ Return(<<Msg("api_error")>>)
                    /\ resps' = Append(resps, r)
                    /\ UNCHANGED reqs
              [] r = "ok" ->
                    /\ resps' = Append(resps, r)
                    /\ InvestLoop([h EXCEPT !.a = r, !.ncoins = n, !.i = 0],
                                  <<Msg("investing")>>)
         /\ UNCHANGED <<config, fs, lastSet>>

invest_buy ==
    /\ Alive /\ At("invest", "wait_buy")
    /\ \E r \in Outcomes :
         /\ CASE r = "reject" ->
                    /\ Throw
                    /\ resps' = Append(resps, r)
                    /\ UNCHANGED <<reqs, out>>
              [] r = "nonok" ->
                    /\ Return(<<Msg("api_error")>>)
                    /\ resps' = Append(resps, r)
                    /\ UNCHANGED reqs
              [] r = "ok" ->
                    /\ resps' = Append(resps, r)
                    /\ InvestLoop([h EXCEPT !.a = r, !.i = h.i + 1],
                                  <<Msg("invested")>>)
         /\ UNCHANGED <<config, fs, lastSet>>

----------------------------------------------------------------------------
(* portfolio (lines 601-673) *)

\* lines 604-614 up to the first suspension: with the cookie unset both
\* api_req calls return undefined one after the other
portfolio ==
    /\ Alive /\ At("portfolio", "start")
    /\ LET ra == api_req(<<"portfolio/total">>, "GET", NoBody)
           rb == api_req(<<"transactions">>, "GET", NoBody)
       IN  IF ra.ret = "undefined"
           THEN /\ reqs' = reqs \o ra.sent \o rb.sent
                /\ out' = out \o Warn(ra) \o Warn(rb)
                /\ h' = [h EXCEPT !.a = "undefined",
                                  !.b = IF rb.ret = "undefined" THEN "undefined" ELSE "none",
                                  !.step = IF rb.ret = "pending" THEN "wait_b" ELSE "returned"]
                /\ pc' = pc
                /\ UNCHANGED <<config, fs, resps, lastSet>>
           ELSE CallFrom(h, ra, <<>>, "wait_a")

\* portfolio that calls the second api_req without awaiting the first
portfolio_b_no_await ==
    /\ Alive /\ At("portfolio", "wait_a")
    /\ LET rb == api_req(<<"transactions">>, "GET", NoBody)
       IN  CallFrom(h, rb, <<>>, "wait_b")

\* lines 604-608: the first response arrives and, whatever it is, the second
\* api_req is called
portfolio_b ==
    /\ Alive /\ At("portfolio", "wait_a")
    /\ \E r \in Outcomes :
         /\ resps' = Append(resps, r)
         /\ IF r = "reject"
            THEN /\ Throw
                 /\ UNCHANGED <<config, fs, reqs, out, lastSet>>
            ELSE LET rb == api_req(<<"transactions">>, "GET", NoBody)
                 IN  /\ reqs' = reqs \o rb.sent
                     /\ out' = out \o Warn(rb)
                     /\ h' = [h EXCEPT !.a = r,
                                       !.b = IF rb.ret = "undefined" THEN "undefined" ELSE "none",
                                       !.step = IF rb.ret = "pending" THEN "wait_b" ELSE "returned"]
                     /\ pc' = pc
                     /\ UNCHANGED <<config, fs, lastSet>>

\* lines 608-672: the second response arrives, then the checks in order
portfolio_check ==
    /\ Alive /\ At("portfolio", "wait_b")
    /\ \E r \in Outcomes :
         /\ resps' = Append(resps, r)
         /\ IF r = "reject"
            THEN Throw /\ out' = out
            ELSE /\ h' = [h EXCEPT !.b = r, !.step = "returned"]
                 /\ pc' = pc
                 /\ out' = out \o
                      (IF h.a = "undefined" THEN <<>>
                       ELSE IF h.a = "nonok" THEN <<Msg("api_error")>>
                       ELSE IF r = "nonok" THEN <<Msg("api_error")>>
                       ELSE <<Msg("success")>>)
         /\ UNCHANGED <<config, fs, reqs, lastSet>>


----------------------------------------------------------------------------
(* The input lines the user types *)

Lines ==
    { <<>>,
      <<"foobar">>,
      <<"foobar", SP, "x">>,
      <<"commands">>,
      <<"set-cookie">>,
      <<"set-cookie", SP, "abc123">>,
      <<"set-cookie", SP, "a", SP, "b">>,
      <<"set-cookie", SP, "a", SP, SP, QUOTE, BSLASH>>,
      <<"set-cookie", SP, "unknown">>,
      <<"coinflip", SP, "1", SP, "5">>,
      <<"coinflip">>,
      <<"slots", SP, "5">>,
      <<"slots", SP, "x">>,
      <<"summary">>,
      <<"redeem", SP, "code">>,
      <<"new-coin", SP, "name", SP, "SYM", SP, "icon.png">>,
      <<"new-coin", SP, "name">>,
      <<"settings", SP, "none", SP, "none", SP, "none", SP, "none">>,
      <<"settings", SP, "n", SP, "u", SP, "pic.png", SP, "my", SP, "bio">>,
      <<"settings", SP, "n">>,
      <<"me">>,
      <<"daily-reward">>,
      <<"notifications">>,
      <<"invest", SP, "1", "0", "0", SP, "2", "0">>,
      <<"invest", SP, "4", SP, "2", SP, "2">>,
      <<"invest", SP, "x", SP, "2">>,
      <<"invest", SP, "4", SP, "x">>,
      <<"invest", SP, "4">>,
      <<"invest", SP, "4", SP, "0">>,
      <<"invest", SP, "0", SP, "0">>,
      <<"view-user", SP, "bob">>,
      <<"view-user">>,
      <<"market">>,
      <<"market", SP, "3">>,
      <<"market", SP, "2", SP, "dog", SP, "coin">>,
      <<"buy-coin", SP, "SYM", SP, "5">>,
      <<"buy-coin", SP, "SYM">>,
      <<"buy-coin", SP, "SYM", SP, "x">>,
      <<"sell-coin", SP, "SYM", SP, "5">>,
      <<"portfolio">> }

\* the config files the program may find at its first start
InitFiles ==
    { NoFile,
      File(<<"{", "\"cookie\"">>),
      File(<<"{", "}">>),
      File(<<"null">>),
      File(<<"{", "\"cookie\"", ":", QUOTE, "abc123", QUOTE, "}">>),
      File(<<"{", "\"cookie\"", ":", QUOTE, "unknown", QUOTE, "}">>) }

InitFS ==
    {[dir |-> FALSE, file |-> NoFile]} \cup {[dir |-> TRUE, file |-> f] : f \in InitFiles}

----------------------------------------------------------------------------
(* Startup and the REPL loop *)

Init ==
    /\ pc = "boot"
    /\ config = DefaultConfig
    /\ fs \in InitFS
    /\ h = Idle
    /\ reqs = <<>>
    /\ resps = <<>>
    /\ out = <<>>
    /\ lastSet = [set |-> FALSE, line |-> <<>>, restarted |-> FALSE]

\* lines 39-47
Startup ==
    /\ pc = "boot"
    /\ LET r == readConfig(fs)
       IN  IF ~r.threw
           THEN /\ config' = r.value
                /\ pc' = "listing"
                /\ UNCHANGED <<fs, out>>
           ELSE \E mkdirOk \in BOOLEAN :
                  LET w == writeConfig(config, fs, mkdirOk)
                  IN  /\ out' = <<Msg("config_error")>>
                      /\ fs' = w.fs
                      /\ config' = config
                      /\ pc' = IF w.threw THEN "crashed" ELSE "listing"
    /\ UNCHANGED <<h, reqs, resps, lastSet>>

\* lines 675-676
PrintCommandList ==
    /\ pc = "listing"
    /\ out' = Append(out, Msg("command_list"))
    /\ pc' = "awaiting"
    /\ UNCHANGED <<config, fs, h, reqs, resps, lastSet>>

\* lines 679-691: a line is read, split and looked up; split never returns
\* an empty array, so the test of line 684 never succeeds
ReadLine ==
    /\ pc = "awaiting"
    /\ \E line \in Lines :
         LET stream == split(line)
         IN  /\ Len(stream) >= 1
             /\ IF ~commands_has(stream[1])
                THEN /\ out' = <<MsgTok("unknown_cmd", stream[1])>>
                     /\ h' = [Idle EXCEPT !.line = line]
                     /\ pc' = "awaiting"
                ELSE /\ out' = <<>>
                     /\ h' = Handler(stream[1][1], line, Tail(stream))
                     /\ pc' = "exec"
    /\ reqs' = <<>>
    /\ resps' = <<>>
    /\ UNCHANGED <<config, fs, lastSet>>

\* a loop that breaks after a command that reported an API error
LoopBackBreakOnError ==
    /\ pc = "exec"
    /\ h.step = "returned"
    /\ pc' = IF Count(out, "api_error") > 0 THEN "ended" ELSE "awaiting"
    /\ UNCHANGED <<config, fs, h, reqs, resps, out, lastSet>>

\* lines 691-692: the awaited handler has returned; the loop iterates
LoopBack ==
    /\ pc = "exec"
    /\ h.step = "returned"
    /\ pc' = "awaiting"
    /\ UNCHANGED <<config, fs, h, reqs, resps, out, lastSet>>

\* lines 680-682: prompt returns null
EndOfInput ==
    /\ pc = "awaiting"
    /\ pc' = "ended"
    /\ UNCHANGED <<config, fs, h, reqs, resps, out, lastSet>>

\* the user starts the program again; the file system is what the last run left
Restart ==
    /\ pc \in {"ended", "crashed"}
    /\ pc' = "boot"
    /\ config' = DefaultConfig
    /\ h' = Idle
    /\ reqs' = <<>>
    /\ resps' = <<>>
    /\ out' = <<>>
    /\ lastSet' = [lastSet EXCEPT !.restarted = lastSet.set]
    /\ fs' = fs

HandlerStep ==
    \/ commands_list
    \/ set_cookie
    \/ coinflip
    \/ coinflip_resp
    \/ slots
    \/ slots_resp
    \/ summary
    \/ summary_resp
    \/ redeem
    \/ redeem_resp
    \/ new_coin
    \/ new_coin_resp
    \/ settings
    \/ settings_me
    \/ settings_resp
    \/ me
    \/ me_resp
    \/ daily_reward
    \/ daily_reward_resp
    \/ notifications
    \/ notifications_resp
    \/ invest
    \/ invest_market
    \/ invest_buy
    \/ view_user
    \/ view_user_resp
    \/ market
    \/ market_resp
    \/ buy_coin
    \/ buy_coin_resp
    \/ sell_coin
    \/ sell_coin_resp
    \/ portfolio
    \/ portfolio_b
    \/ portfolio_check

Next ==
    \/ Startup
    \/ PrintCommandList
    \/ ReadLine
    \/ LoopBack
    \/ EndOfInput
    \/ Restart
    \/ HandlerStep

Spec == Init /\ [][Next]_vars

\* The runtime runs the program whenever it can run: startup, the handler's
\* steps (every request gets a response or a rejection) and the loop's
\* iteration are not postponed for ever.  Reading a line is up to the user.
LiveSpec ==
    /\ Spec
    /\ WF_vars(Startup \/ PrintCommandList \/ LoopBack \/ HandlerStep)

----------------------------------------------------------------------------
(* Properties *)

\* config.cookie == "unknown"
CookieUnset == config.kind = "object" /\ config.cookie = Str(UNKNOWN)

\* the commands whose handler calls api_req
GatewayCommands ==
    {"coinflip", "slots", "summary", "redeem", "new-coin", "settings",
     "daily-reward", "notifications", "invest", "view-user", "market",
     "buy-coin", "sell-coin", "portfolio"}

\* the requests a step issues
Issued == IF Len(reqs') > Len(reqs) THEN SubSeq(reqs', Len(reqs) + 1, Len(reqs')) ELSE <<>>

\* C1 (as claimed): with the cookie unset, an invocation of a gateway command
\* in which api_req was reached has, when it returns, issued no network
\* request and printed the unauthenticated warning exactly once.
C1_UnsetCookieNoRequestOneWarning ==
    (/\ CookieUnset
     /\ h.cmd \in GatewayCommands
     /\ h.step = "returned"
     /\ h.a = "undefined")
    => (reqs = <<>> /\ Count(out, "unauth") = 1)

\* the commands without arguments that call api_req once, first thing
Endpoint(cmd) ==
    CASE cmd = "summary" -> <<"portfolio/summary">>
      [] cmd = "daily-reward" -> <<"rewards/claim">>
      [] cmd = "notifications" -> <<"notifications">>

Method(cmd) == IF cmd = "daily-reward" THEN "POST" ELSE "GET"

\* C2: a call of api_req with the cookie unset prints the warning, returns
\* undefined and issues no request (in no step is a request to the API issued
\* while the cookie is unset, and a warning is only printed then); a call with
\* any other cookie issues exactly one request, to the base URL plus the
\* endpoint, with the given method and body and the cookie as header.
C2_ApiReq ==
    [][/\ \A i \in 1..Len(Issued) :
             /\ Issued[i].url # DATA_URL => (~CookieUnset /\ Issued[i].url[1] = BASE[1])
             /\ Issued[i].cookie = config.cookie
       /\ Len(Issued) <= 1
       /\ (Len(out') > Len(out) /\ out'[Len(out')].k = "unauth")
             => (CookieUnset /\ Issued = <<>> /\ h'.a = "undefined")
       /\ (h.cmd \in {"summary", "daily-reward", "notifications"}
             /\ h.step = "start" /\ h'.step # "start" /\ config.kind = "object")
             => IF CookieUnset
                THEN /\ out' = Append(out, Msg("unauth"))
                     /\ reqs' = reqs
                     /\ h'.a = "undefined"
                     /\ h'.step = "returned"
                ELSE /\ out' = out
                     /\ reqs' = Append(reqs, [url |-> BASE \o Endpoint(h.cmd),
                                              method |-> Method(h.cmd),
                                              cookie |-> config.cookie,
                                              body |-> NoBody])
      ]_vars

C2_Witness ==
    /\ h.cmd = "daily-reward"
    /\ config.cookie = Str(<<"abc123">>)
    /\ reqs = <<[url |-> <<"https://rugplay.com/api/", "rewards/claim">>, method |-> "POST",
                 cookie |-> Str(<<"abc123">>), body |-> NoBody]>>

\* C3 (as claimed): an invest whose market request and trade requests all
\* succeeded has issued exactly n = floor(budget/amountPerCoin) BUY requests
\* when it ends; when a BUY request gets a non-OK response no request follows it.
C3_InvestIssuesExactlyN ==
    /\ (/\ h.cmd = "invest"
        /\ config.cookie.t = "str"
        /\ h.step \in {"returned", "threw"}
        /\ h.limit.k = "num"
        /\ Len(resps) >= 1
        /\ \A i \in 1..Len(resps) : resps[i] = "ok")
       => Len(reqs) - 1 = h.limit.v
    /\ (/\ h.cmd = "invest"
        /\ Len(resps) >= 2
        /\ resps[Len(resps)] = "nonok")
       => (Len(reqs) = Len(resps) /\ h.step = "returned")

\* a config file that is valid JSON with a cookie string field
HasCookieString(f) ==
    /\ f.exists
    /\ ~JSON_parse(f.text).threw
    /\ JSON_parse(f.text).value.kind = "object"
    /\ JSON_parse(f.text).value.cookie.t = "str"

\* C4 (as claimed): in an existing home directory, startup loads the cookie of
\* a config file that is valid JSON with a cookie string field and writes
\* nothing; for every other file the config is the default, the default is
\* written to disk, the failure is reported and startup continues.
C4_StartupLoadsOrDefaults ==
    [][(pc = "boot" /\ pc' # "boot" /\ fs.dir)
        => IF HasCookieString(fs.file)
           THEN /\ config' = JSON_parse(fs.file.text).value
                /\ fs' = fs
                /\ pc' = "listing"
           ELSE /\ config' = DefaultConfig
                /\ fs'.file = File(<<"{", "\"cookie\"", ":", QUOTE, "unknown", QUOTE, "}">>)
                /\ Count(out', "config_error") = 1
                /\ pc' = "listing"
      ]_vars

\* the text typed after "set-cookie "
TypedAfterCommand(line) == SubSeq(line, 3, Len(line))

\* C5: after a set-cookie with at least one argument token has finished and
\* the program has been restarted, the loaded cookie is the text the user
\* typed after the command name.
C5_SetCookieRoundTrip ==
    (/\ lastSet.set
     /\ lastSet.restarted
     /\ Len(lastSet.line) >= 2
     /\ pc \in {"listing", "awaiting", "exec", "ended"})
    => config = Object(Str(TypedAfterCommand(lastSet.line)))

C5_Witness ==
    /\ lastSet.set
    /\ lastSet.restarted
    /\ pc = "awaiting"
    /\ lastSet.line = <<"set-cookie", SP, "a", SP, SP, QUOTE, BSLASH>>
    /\ config.cookie = Str(<<"a", SP, SP, QUOTE, BSLASH>>)

\* the first token of a line: the text before the first space
FirstToken(line) ==
    IF \E i \in 1..Len(line) : line[i] = SP
    THEN SubSeq(line, 1, (CHOOSE i \in 1..Len(line) :
                              line[i] = SP /\ \A j \in 1..(i-1) : line[j] # SP) - 1)
    ELSE line

Registered(tok) == \E i \in 1..Len(CommandNames) : tok = <<CommandNames[i]>>

\* C6: a line whose first token is not a registered command name prints an
\* error naming the token, leaves the config and the file unchanged, issues no
\* request, invokes no handler and leaves the loop awaiting input.
C6_UnknownCommand ==
    [][(/\ pc = "awaiting"
        /\ pc' # "ended"
        /\ ~Registered(FirstToken(h'.line)))
       => (/\ out' = <<MsgTok("unknown_cmd", FirstToken(h'.line))>>
           /\ config' = config
           /\ fs' = fs
           /\ reqs' = <<>>
           /\ h'.step = "idle"
           /\ pc' = "awaiting")
      ]_vars

C6_Witness ==
    /\ pc = "awaiting"
    /\ h.line = <<>>
    /\ out = <<MsgTok("unknown_cmd", <<>>)>>
    /\ config.cookie = Str(<<"a", SP, "b">>)

\* C7 (as claimed): once a request has returned a non-OK response no further
\* request is issued in the invocation, the error is reported and no success
\* output is printed.
C7_AbortAfterNonOk ==
    \A i \in 1..Len(resps) :
        (resps[i] = "nonok" /\ config.cookie.t = "str")
        => /\ Len(reqs) = i
           /\ h.step = "returned"
              => (Count(out, "api_error") = 1 /\ Count(out, "success") = 0)

\* C8 (as claimed): when the icon or avatar file cannot be read, no network
\* request has been issued during the invocation.
C8_FileErrorBeforeAnyRequest ==
    Count(out, "file_error") > 0 => (reqs = <<>> /\ h.step = "returned")

\* C9: at most one request is in flight, a request is issued only when every
\* earlier request of the invocation has returned, and while the loop awaits
\* input no handler is running and no request is in flight.
C9_StrictlySequential ==
    /\ [](InFlight \in {0, 1})
    /\ [](pc = "awaiting" => (h.step \in {"idle", "returned"} /\ InFlight = 0))
    /\ [][Len(reqs') > Len(reqs) => Len(resps') = Len(reqs)]_vars
    /\ [][(pc = "awaiting" /\ h' # h) => (InFlight = 0 /\ h.step \in {"idle", "returned"})]_vars

C9_Witness ==
    /\ h.cmd = "portfolio"
    /\ Len(reqs) = 2
    /\ Len(resps) = 1
    /\ pc = "exec"

\* what makes a handler throw: a rejected fetch, a market response that lists
\* fewer coins than the loop reads, a null config, a config file that cannot
\* be written
Unhandled ==
    \/ (Len(resps') > 0 /\ resps'[Len(resps')] = "reject")
    \/ (h.cmd = "invest" /\ h'.i >= h'.ncoins)
    \/ config.kind = "null"
    \/ (h.cmd = "set-cookie" /\ ~fs'.dir)

C11_ConfigMirrorsFile ==
    /\ [](pc = "awaiting" => (/\ ~readConfig(fs).threw
                              /\ readConfig(fs).value.kind = config.kind
                              /\ readConfig(fs).value.cookie = config.cookie))
    /\ [][(config' # config \/ fs' # fs)
           => (pc = "boot" \/ pc' = "boot" \/ At("set-cookie", "start"))]_vars

C11_Witness ==
    /\ pc = "awaiting"
    /\ h.cmd = "summary"
    /\ h.step = "returned"
    /\ lastSet.line = <<"set-cookie", SP, "a", SP, "b">>
    /\ ~lastSet.restarted
    /\ config.cookie = Str(<<"a", SP, "b">>)
    /\ fs.file = File(<<"{", "\"cookie\"", ":", QUOTE, "a", SP, "b", QUOTE, "}">>)


\* the text after the first space of a line, empty when there is none
AfterFirstSpace(line) ==
    IF \E i \in 1..Len(line) : line[i] = SP
    THEN SubSeq(line, 1 + (CHOOSE i \in 1..Len(line) :
                              line[i] = SP /\ \A j \in 1..(i-1) : line[j] # SP), Len(line))
    ELSE <<>>

\* the page typed after "market ", "1" when nothing was typed
PageTyped(line) ==
    IF \E i \in 1..Len(line) : line[i] = SP
    THEN FirstToken(AfterFirstSpace(line))
    ELSE <<"1">>

\* the search term typed after the page
SearchTyped(line) == AfterFirstSpace(AfterFirstSpace(line))

\* C12: the one request of market is a GET of the market listing with the
\* first token as page ("1" when absent), the rest of the line URL-encoded as
\* search term (empty when absent), limit 6, sorted by market cap descending;
\* with no arguments: page 1, empty search term, limit 6.
C12_MarketRequest ==
    /\ (h.cmd = "market" /\ h.step # "start" /\ config.kind = "object" /\ ~CookieUnset)
       => reqs = <<[url |-> BASE \o <<"market?search=">>
                              \o encodeURIComponent(SearchTyped(h.line))
                              \o <<"&sortBy=marketCap", "&sortOrder=desc",
                                   "&priceFilter=all&changeFilter=all", "&page=">>
                              \o PageTyped(h.line) \o <<"&limit=", "6">>,
                    method |-> "GET",
                    cookie |-> config.cookie,
                    body |-> NoBody]>>
    /\ (h.cmd = "market" /\ h.line = <<"market">> /\ reqs # <<>>)
       => reqs[1].url = <<"https://rugplay.com/api/", "market?search=",
                          "&sortBy=marketCap", "&sortOrder=desc",
                          "&priceFilter=all&changeFilter=all", "&page=", "1",
                          "&limit=", "6">>

C12_Witness ==
    /\ h.cmd = "market"
    /\ h.line = <<"market", SP, "2", SP, "dog", SP, "coin">>
    /\ Len(reqs) = 1
    /\ reqs[1].url = <<"https://rugplay.com/api/", "market?search=", "dog", "%20", "coin",
                       "&sortBy=marketCap", "&sortOrder=desc",
                       "&priceFilter=all&changeFilter=all", "&page=", "2",
                       "&limit=", "6">>


\* the glyph the spec fixes for each of the six symbol identifiers
Glyph(id) ==
    CASE id = "wattesigma" -> "white-square"
      [] id = "webx" -> "black-square"
      [] id = "twoblade" -> "red-square"
      [] id = "lyntr" -> "purple-square"
      [] id = "bussin" -> "orange-square"
      [] id = "subterfuge" -> "green-square"
      [] OTHER -> "none"

\* C13 (as claimed): a successful slots response renders each of the six
\* identifiers as its fixed glyph, and an identifier outside the set is not
\* rendered as undefined unless an error is reported.
C13_SlotSymbolsRendered ==
    (h.cmd = "slots" /\ h.a = "ok" /\ h.step = "returned")
    => /\ Len(out) >= 1
       /\ out[1].k = "symbols"
       /\ \A i \in 1..3 :
            IF Glyph(h.syms[i]) # "none"
            THEN out[1].tok[i] = Glyph(h.syms[i])
            ELSE out[1].tok[i] # "undefined" \/ Count(out, "symbol_error") > 0


\* the commands that parse a numeric argument
NumericCommands == {"coinflip", "slots", "invest", "buy-coin", "sell-coin"}

\* C14 (as claimed): no request body carries a NaN amount, whichever
\* command parsed the argument.
C14_NoNaNAmount ==
    \A i \in 1..Len(reqs) :
       \A j \in 1..Len(reqs[i].body.fields) :
          (/\ h.cmd \in NumericCommands
           /\ config.cookie.t = "str"
           /\ reqs[i].body.fields[j].k = "amount")
             => reqs[i].body.fields[j].n.k # "nan"

\* the BUY request of invest for the i-th listed coin (i from 0)
BuyOf(i, amount) ==
    [url |-> BASE \o <<"coin/">> \o Symbol(i) \o <<"/trade">>,
     method |-> "POST",
     cookie |-> config.cookie,
     body |-> Json(<<FieldS("type", <<"BUY">>), FieldN("amount", amount)>>)]

\* C15 (as claimed): an invest whose market request succeeded with a listing
\* no longer than the purchase count, and whose BUY requests all succeeded,
\* ends by returning, having issued one BUY request per listed coin, in
\* listing order, each for amountPerCoin and the coin's symbol.
C15_OneBuyPerListedCoin ==
    (/\ h.cmd = "invest"
     /\ h.step \in {"returned", "threw"}
     /\ config.cookie.t = "str"
     /\ h.limit.k = "num"
     /\ Len(resps) >= 1
     /\ \A i \in 1..Len(resps) : resps[i] = "ok"
     /\ LessThan(h.ncoins - 1, h.limit))
    => /\ h.step = "returned"
       /\ pc # "crashed"
       /\ Len(reqs) = 1 + h.ncoins
       /\ \A i \in 1..h.ncoins : reqs[i + 1] = BuyOf(i - 1, h.amount)

\* the cookie a request must carry: that of the set-cookie completed last in
\* this run, else the one the file held when the program started
CurrentCookie ==
    IF lastSet.set /\ ~lastSet.restarted
    THEN (IF Len(lastSet.line) >= 2 THEN Str(TypedAfterCommand(lastSet.line)) ELSE Undefined)
    ELSE readConfig(fs).value.cookie

\* C16: every request, of api_req and of me() alike, carries the cookie of
\* the most recently completed set-cookie, or the cookie loaded at startup
\* when none has run.
C16_RequestsCarryCurrentCookie ==
    \A i \in 1..Len(reqs) : reqs[i].cookie = CurrentCookie

C16_Witness ==
    /\ h.cmd = "settings"
    /\ h.step = "wait"
    /\ lastSet.line = <<"set-cookie", SP, "a", SP, "b">>
    /\ ~lastSet.restarted
    /\ fs.file # File(<<"{", "\"cookie\"", ":", QUOTE, "abc123", QUOTE, "}">>)
    /\ Len(reqs) = 2
    /\ reqs[1].url = DATA_URL
    /\ reqs[1].cookie = Str(<<"a", SP, "b">>)
    /\ reqs[2].cookie = Str(<<"a", SP, "b">>)

====
